---- MODULE Spec2Model ----
(***************************************************************************)
(* A model of the RESTCONF gateway: Server.ServeHTTP (routing, filters,    *)
(* compliance negotiation), browserHandler.ServeHTTP (the CRUD/RPC         *)
(* dispatch) and the notification stream held open by a GET on a           *)
(* notification node.                                                      *)
(*                                                                         *)
(* The tree library (Selection, Browser, readers and writers) is external: *)
(* the outcome of each call to it is an input of the request.              *)
(***************************************************************************)
EXTENDS Integers, Sequences, FiniteSets, TLC

VARIABLES
    srv,            \* the Server's configuration fields
    phase,          \* "idle" | "streaming" | "done": where the request in hand is
    req,            \* the request in hand (headers, method, address, tree outcomes)
    compliance,     \* the ComplianceOptions negotiated for the request
    route,          \* which part of the server the request reached
    endpoint,       \* endpointId handed to browserHandler.ServeHTTP ("none": not invoked)
    branch,         \* the case of the method switch that ran
    ops,            \* the tree operations invoked, in order
    out,            \* what was written to the response, in order
    ctype,          \* the response's Content-Type header
    fcalls,         \* the request filters invoked, in order, each with the context it got
    ctx,            \* the context the filters left for the rest of Server.ServeHTTP
    subscribeCount, \* the process-wide live-subscription counter
    hpc,            \* the streaming handler's position
    herr,           \* the error the streaming handler received from errOnSend
    registered,     \* the callback is registered with the event source
    errOnSend,      \* the subscription's error channel: [head, len]
    ppc,            \* each producer's position inside the callback
    pbuf,           \* each producer's per-event buffer: the chunks rendered, not yet written
    pn,             \* the notification each producer's callback was invoked with
    conn,           \* what reached the connection: the byte strings written, in order
    nextEvent,      \* the next encodable event's number
    spc,            \* each concurrent streaming handler's position
    sval            \* the counter value each handler's ++ or -- has read

vars == <<srv, phase, req, compliance, route, endpoint, branch, ops, out, ctype,
          fcalls, ctx, subscribeCount, hpc, herr, registered, errOnSend, ppc, pbuf, pn,
          conn, nextEvent, spc, sval>>

reqVars == <<srv, phase, req, compliance, route, endpoint, branch, ops, out, ctype,
            fcalls, ctx>>

streamVars == <<hpc, herr, registered, errOnSend, ppc, pbuf, pn, conn, nextEvent>>

countVars == <<spc, sval>>

-----------------------------------------------------------------------------
(* Bounds of the model *)

NFilters == 2
NProducers == 2
MaxEvents == 2
NHandlers == 2

-----------------------------------------------------------------------------
(* Media types and other constants of the package *)

YangDataJsonMimeType1 == "application/yang-data+json"
YangDataJsonMimeType2 == "application/yang.data+json"
YangDataXmlMimeType1 == "application/yang-data+xml"
YangDataXmlMimeType2 == "application/yang.data+xml"
TextStreamMimeType == "text/event-stream"
PlainJsonMimeType == "application/json"
MultipartFormMimeType == "multipart/form-data"

\* TextStreamMimeType + "; charset=utf-8"
TextStreamCharset == "text/event-stream; charset=utf-8"

\* mime.TypeByExtension(".json") and mime.TypeByExtension(".xml")
MimeJson == "application/json"
MimeXml == "text/xml; charset=utf-8"

endpointData == "data"
endpointOperations == "operations"
endpointStreams == "streams"
endpointSchema == "schema"

ErrChanCap == 20

-----------------------------------------------------------------------------
(* ComplianceOptions and its two presets *)

Strict ==
    [name |-> "strict",
     AllowRpcUnderData |-> FALSE,
     DisableActionWrapper |-> FALSE,
     DisableNotificationWrapper |-> FALSE,
     QualifyNamespaceDisabled |-> FALSE]

Simplified ==
    [name |-> "simplified",
     AllowRpcUnderData |-> TRUE,
     DisableActionWrapper |-> TRUE,
     DisableNotificationWrapper |-> TRUE,
     QualifyNamespaceDisabled |-> TRUE]

\* The comparison chain without the second XML spelling
IsYangDataMimeType_oneXml(t) ==
    \/ t = YangDataJsonMimeType1
    \/ t = YangDataJsonMimeType2
    \/ t = YangDataXmlMimeType1

\* The media-type comparisons of determineCompliance
IsYangDataMimeType(t) ==
    \/ t = YangDataJsonMimeType1
    \/ t = YangDataJsonMimeType2
    \/ t = YangDataXmlMimeType1
    \/ t = YangDataXmlMimeType2

\* determineCompliance with the query flag consulted before the server's flag
determineCompliance_queryFirst(s, r) ==
    IF r.simplified THEN Simplified
    ELSE IF s.OnlyStrictCompliance THEN Strict
    ELSE IF IsYangDataMimeType(r.contentType) \/ IsYangDataMimeType(r.accept) THEN Strict
    ELSE IF r.accept = TextStreamMimeType THEN Strict
    ELSE Simplified

\* Server.determineCompliance
determineCompliance(s, r) ==
    IF s.OnlyStrictCompliance THEN Strict
    ELSE IF r.simplified THEN Simplified
    ELSE IF IsYangDataMimeType(r.contentType) \/ IsYangDataMimeType(r.accept) THEN Strict
    ELSE IF r.accept = TextStreamMimeType THEN Strict
    ELSE Simplified

-----------------------------------------------------------------------------
(* The response: what a handler writes, in order *)

\* http.Error(w, msg, code)
HttpError(code, msg) ==
    [kind |-> "error", status |-> code, detail |-> msg, wrap |-> FALSE, qual |-> FALSE]

\* An encoder's output written to the response: enc is the writer that produced
\* it ("json", "xml", or "nil" when no writer was built)
Body(enc, wrapped, qualified) ==
    [kind |-> "body", status |-> 0, detail |-> enc, wrap |-> wrapped, qual |-> qualified]

\* The JSON action envelope written around an output whose encoding failed:
\* the opening `{"<module>:output":` and the closing `}` with no complete value
PartialBody ==
    [kind |-> "partial", status |-> 0, detail |-> "json", wrap |-> TRUE, qual |-> FALSE]

\* fc.HttpStatusCode as handleErr uses it: the error's class decides the status
HttpStatusCode(err) ==
    CASE err = "NotFound" -> 404
      [] err = "BadAddress" -> 400
      [] OTHER -> 500

\* handleErr(compliance, err, r, w): nothing for a nil error, else one error response
handleErr(err) ==
    IF err = "nil" THEN <<>> ELSE <<HttpError(HttpStatusCode(err), err)>>

\* What browserHandler.ServeHTTP did
Result(o, t, ct, br, st) ==
    [out |-> o, ops |-> t, ctype |-> ct, branch |-> br, stream |-> st]

-----------------------------------------------------------------------------
(* Content codec selection *)

\* strings.Contains(content_type, "xml") over the content types the server sets
ContainsXml(ct) ==
    ct \in {YangDataXmlMimeType1, YangDataXmlMimeType2, MimeXml}

\* setContentType(request_accept, compliance, h)
setContentType(request_accept, c) ==
    IF request_accept = YangDataJsonMimeType1 \/ request_accept = YangDataJsonMimeType2
    THEN IF c.QualifyNamespaceDisabled THEN MimeJson ELSE YangDataJsonMimeType1
    ELSE IF request_accept = YangDataXmlMimeType1 \/ request_accept = YangDataXmlMimeType2
    THEN IF c.QualifyNamespaceDisabled THEN MimeXml ELSE YangDataXmlMimeType1
    ELSE IF c.QualifyNamespaceDisabled THEN MimeJson ELSE YangDataJsonMimeType1

\* jsonWtr(compliance, out): the JSON writer, qualifying names unless disabled
jsonWtr(c, wrapped) ==
    Body("json", wrapped, ~c.QualifyNamespaceDisabled)

\* xmlWtr(compliance, out)
xmlWtr(c) ==
    Body("xml", FALSE, FALSE)

\* sendActionOutput(compliance, content_type, out, output, a): what it writes.
\* ok is whether output.InsertInto(node) reports no error.  The writer stays
\* nil when the action wrapper is disabled: the output is then handed to no
\* encoder (Body("nil", ...) stands for that call).  With the JSON wrapper the
\* envelope is written around the encoding, also when the encoding fails.
sendActionOutput(c, content_type, ok) ==
    IF ~c.DisableActionWrapper
    THEN IF ~ContainsXml(content_type)
         THEN IF ok THEN <<jsonWtr(c, TRUE)>> ELSE <<PartialBody>>
         ELSE IF ok THEN <<xmlWtr(c)>> ELSE <<>>
    ELSE IF ok THEN <<Body("nil", FALSE, FALSE)>> ELSE <<>>

\* isMultiPartForm(r.Header)
isMultiPartForm(r) ==
    r.contentType = MultipartFormMimeType

\* readInput without the lookup of the wrapper key: any document that parses is taken
readInput_noKeyCheck(c, content_type, r) ==
    IF isMultiPartForm(r) THEN (IF r.formOk THEN "ok" ELSE "Decode")
    ELSE IF c.DisableActionWrapper THEN "ok"
    ELSE IF content_type = YangDataJsonMimeType1 \/ content_type = YangDataJsonMimeType2
    THEN (IF r.body \in {"jsonWrapped", "jsonBare"} THEN "ok" ELSE "Decode")
    ELSE IF content_type = YangDataXmlMimeType1 \/ content_type = YangDataXmlMimeType2
    THEN (IF r.body = "xmlDoc" THEN "ok" ELSE "Decode")
    ELSE "Decode"

\* readInput(compliance, content_type, r, a): "ok" or the decode error.
\* r.body is the shape of the request body:
\*   "jsonWrapped"  {"<module>:input": {...}}      "jsonBare"  a JSON object without that key
\*   "xmlDoc"       an XML document with a root    "malformed" neither JSON nor XML
readInput(c, content_type, r) ==
    IF isMultiPartForm(r) THEN (IF r.formOk THEN "ok" ELSE "Decode")
    ELSE IF c.DisableActionWrapper THEN "ok"
    ELSE LET isJson == content_type = YangDataJsonMimeType1 \/ content_type = YangDataJsonMimeType2
             isXml == content_type = YangDataXmlMimeType1 \/ content_type = YangDataXmlMimeType2
         IN IF isJson
            THEN IF r.body \in {"jsonWrapped", "jsonBare"}
                 THEN (IF r.body = "jsonWrapped" THEN "ok" ELSE "Decode")
                 ELSE "Decode"
            ELSE IF isXml
            THEN IF r.body = "xmlDoc" THEN "ok" ELSE "Decode"
            ELSE "Decode"   \* vals is nil and key is "": nothing is found

\* requestNode(r): only a multipart form can fail here; JSON is read lazily
requestNode(r) ==
    IF isMultiPartForm(r) THEN (IF r.formOk THEN "ok" ELSE "Decode") ELSE "ok"

\* A tree operation's error: r.opOk is the outcome the tree gives
opErr(r) ==
    IF r.opOk THEN "nil" ELSE "TreeOp"

-----------------------------------------------------------------------------
(* browserHandler.ServeHTTP: the CRUD/RPC dispatch.  `pre` is what the      *)
(* endpoint checks have already written when the method switch is reached.  *)

\* case "DELETE"
ServeDelete(c, r, pre) ==
    Result(pre \o handleErr(opErr(r)), <<"Delete">>, "", "delete", "none")

\* case "GET" on a notification node: the streaming headers, the counter, the
\* registration with the event source.  A failed registration is printed and
\* the handler returns; otherwise the handler blocks in its select.
ServeNotifications(c, r, pre) ==
    Result(pre, <<"Notifications">>, TextStreamCharset, "notify",
           IF r.subOk THEN "live" ELSE "failed")

\* case "GET" on any other node: CRUD - Read
ServeRead(c, r, pre) ==
    LET ct == setContentType(r.accept, c)
    IN Result(pre \o (IF r.opOk THEN <<jsonWtr(c, FALSE)>> ELSE handleErr(opErr(r))),
              <<"InsertInto">>, ct, "read", "none")

\* case "PATCH": CRUD - Upsert
ServeUpsert(c, r, pre) ==
    IF requestNode(r) # "ok"
    THEN Result(pre \o handleErr(requestNode(r)), <<>>, "", "upsert", "none")
    ELSE Result(pre \o handleErr(opErr(r)), <<"UpsertFrom">>, "", "upsert", "none")

\* case "PUT": CRUD - Remove and replace
ServeReplace(c, r, pre) ==
    IF requestNode(r) # "ok"
    THEN Result(pre \o handleErr(requestNode(r)), <<>>, "", "replace", "none")
    ELSE Result(pre \o handleErr(opErr(r)), <<"ReplaceFrom">>, "", "replace", "none")

\* case "POST" on an action: RPC.  r.actRes is what sel.Action gives:
\* "err" (LastErr set), "nil" (no output selection) or "out" (an output selection)
ServeAction(c, r, pre) ==
    LET inErr == IF r.hasInput THEN readInput(c, r.contentType, r) ELSE "ok"
        ct == setContentType(r.accept, c)
    IN IF inErr # "ok"
       THEN Result(pre \o handleErr(inErr), <<>>, "", "rpc", "none")
       ELSE IF r.actRes = "err"
       THEN Result(pre \o handleErr("TreeOp"), <<"Action">>, "", "rpc", "none")
       ELSE IF r.actRes = "out" /\ r.hasOutput
       THEN Result(pre \o sendActionOutput(c, ct, r.opOk) \o handleErr(opErr(r)),
                   <<"Action", "InsertInto">>, ct, "rpc", "none")
       ELSE Result(pre, <<"Action">>, "", "rpc", "none")

\* case "POST" on any other node: CRUD - Insert
ServeInsert(c, r, pre) ==
    Result(pre \o handleErr(opErr(r)), <<"InsertFrom">>, "", "insert", "none")

\* The method switch with PUT handled as PATCH is: an upsert in place of the
\* replacement
MethodSwitch_putUpserts(c, r, pre) ==
    CASE r.method = "DELETE" -> ServeDelete(c, r, pre)
      [] r.method = "GET" ->
            IF r.kind = "notification" THEN ServeNotifications(c, r, pre)
            ELSE ServeRead(c, r, pre)
      [] r.method \in {"PATCH", "PUT"} -> ServeUpsert(c, r, pre)
      [] r.method = "POST" ->
            IF r.kind = "action" THEN ServeAction(c, r, pre)
            ELSE ServeInsert(c, r, pre)
      [] r.method = "OPTIONS" -> Result(pre, <<>>, "", "options", "none")
      [] OTHER -> Result(pre \o <<HttpError(405, "Method Not Allowed")>>, <<>>, "",
                         "default", "none")

\* switch r.Method
MethodSwitch(c, r, pre) ==
    CASE r.method = "DELETE" -> ServeDelete(c, r, pre)
      [] r.method = "GET" ->
            IF r.kind = "notification" THEN ServeNotifications(c, r, pre)
            ELSE ServeRead(c, r, pre)
      [] r.method = "PATCH" -> ServeUpsert(c, r, pre)
      [] r.method = "PUT" -> ServeReplace(c, r, pre)
      [] r.method = "POST" ->
            IF r.kind = "action" THEN ServeAction(c, r, pre)
            ELSE ServeInsert(c, r, pre)
      [] r.method = "OPTIONS" -> Result(pre, <<>>, "", "options", "none")
      [] OTHER -> Result(pre \o <<HttpError(405, "Method Not Allowed")>>, <<>>, "",
                         "default", "none")

\* The depth test off by one
isNestedAction_offByOne(r) ==
    r.depth > 1

\* isAction := sel.Path.Len() > 2
isNestedAction(r) ==
    r.depth > 2

\* The endpoint checks that precede the method switch.  The first writes its
\* 400 and goes on; the second writes its 400 and returns.
EndpointChecks(c, r, endpointId) ==
    LET isRpcOrAction == r.method = "POST" /\ r.kind = "action"
    IN IF ~isRpcOrAction /\ endpointId = endpointOperations
       THEN MethodSwitch(c, r,
                <<HttpError(400, "{+restconf}/operations is only intended for rpcs")>>)
       ELSE IF isRpcOrAction /\ ~c.AllowRpcUnderData /\ endpointId = endpointData
                 /\ ~isNestedAction(r)
       THEN Result(<<HttpError(400,
                        "rpcs are located at {+restconf}/operations not {+restconf}/data")>>,
                   <<>>, "", "none", "none")
       ELSE MethodSwitch(c, r, <<>>)

\* browserHandler.ServeHTTP without the sel.IsNil() check
browserServeHTTP_noNilCheck(c, r, endpointId) ==
    IF r.sel = "err"
    THEN Result(handleErr("Resolve"), <<>>, "", "none", "none")
    ELSE EndpointChecks(c, r, endpointId)

\* browserHandler.ServeHTTP.  r.sel is what FindUrl gives: "err" (LastErr set),
\* "nil" (no such node) or "ok"
browserServeHTTP(c, r, endpointId) ==
    IF r.sel = "err"
    THEN Result(handleErr("Resolve"), <<>>, "", "none", "none")
    ELSE IF r.sel = "nil"
    THEN Result(<<HttpError(404, "Not Found")>>, <<>>, "", "none", "none")
    ELSE EndpointChecks(c, r, endpointId)

-----------------------------------------------------------------------------
(* Server.ServeHTTP: filters, CORS, the root path, device and endpoint       *)
(* resolution.  The address is held in parts:                                *)
(*   r.op1     first segment ("" for the path "/")                           *)
(*   r.device  what findDevice gives for the =device suffix:                 *)
(*             "main" (no suffix), "known", "unknown" (nil), "err"           *)
(*   r.op2     second segment under restconf                                 *)
(*   r.module  what the rest of the path names: "none" (no module segment),  *)
(*             "known", "unknown" (looked up, not there), "err" (lookup fails)*)

\* What Server.ServeHTTP did: the part reached, and the browser handler's result
Routed(rt, ep, res) ==
    [route |-> rt, endpoint |-> ep, res |-> res]

NoResult == Result(<<>>, <<>>, "", "none", "none")

Wrote(o) == Result(o, <<>>, "", "none", "none")

\* Server.findDevice: "nil" or the error
findDevice(r) ==
    CASE r.device = "unknown" -> "NotFound"
      [] r.device = "err" -> "Device"
      [] OTHER -> "nil"

\* Server.shiftBrowserHandler: "nil" when a handler is built, else the error reported
shiftBrowserHandler(r) ==
    IF r.module = "known" THEN "nil"
    ELSE IF r.module = "err" THEN "Device"
    ELSE "NotFound"     \* fc.NotFoundError: "no module found in path"

\* Server.serve
serve(c, r, endpointId) ==
    IF shiftBrowserHandler(r) = "nil"
    THEN Routed("browser", endpointId, browserServeHTTP(c, r, endpointId))
    ELSE Routed("module", "none", Wrote(handleErr(shiftBrowserHandler(r))))

\* Server.serveSchema: both modules load, or the load error is reported
serveSchema(c, r) ==
    IF r.module = "known"
    THEN Routed("browser", endpointSchema, browserServeHTTP(c, r, endpointSchema))
    ELSE Routed("schemaLoad", "none", Wrote(handleErr("NotFound")))

\* Server.serveStreamSource: the source's bytes, or the error
serveStreamSource(r) ==
    CASE r.module = "known" -> Routed("source", "none", Wrote(<<Body("raw", FALSE, FALSE)>>))
      [] r.module = "err" -> Routed("source", "none", Wrote(handleErr("Source")))
      [] OTHER -> Routed("source", "none", Wrote(handleErr("NotFound")))

\* strings.Contains(accept, "/json") over the Accept values of the model
AcceptsSlashJson(accept) ==
    accept = PlainJsonMimeType

\* The switch on the second segment without the return that follows it: an
\* unknown segment is reported and the request goes on to the fallback handler
serveRestconf_fallsThrough(c, r) ==
    CASE r.op2 = "data" -> serve(c, r, endpointData)
      [] r.op2 = "streams" -> serve(c, r, endpointStreams)
      [] r.op2 = "operations" -> serve(c, r, endpointOperations)
      [] r.op2 = "ui" -> serveStreamSource(r)
      [] r.op2 = "schema" ->
            IF AcceptsSlashJson(r.accept) THEN serveSchema(c, r)
            ELSE serveStreamSource(r)
      [] OTHER -> Routed("unhandled", "none", Wrote(handleErr("BadAddress")))

\* case "restconf": the switch on the second segment
serveRestconf(c, r) ==
    CASE r.op2 = "data" -> serve(c, r, endpointData)
      [] r.op2 = "streams" -> serve(c, r, endpointStreams)
      [] r.op2 = "operations" -> serve(c, r, endpointOperations)
      [] r.op2 = "ui" -> serveStreamSource(r)
      [] r.op2 = "schema" ->
            IF AcceptsSlashJson(r.accept) THEN serveSchema(c, r)
            ELSE serveStreamSource(r)
      [] OTHER -> Routed("badAddress", "none", Wrote(handleErr("BadAddress")))

\* Server.handleWebApp and the fallback handler
serveOther(s, r) ==
    IF s.webApp /\ r.op1 = "app" THEN Routed("webapp", "none", Wrote(<<Body("raw", FALSE, FALSE)>>))
    ELSE IF s.unhandled THEN Routed("unhandled", "none", NoResult)
    ELSE Routed("none", "none", NoResult)

\* context.WithValue(context.Background(), ComplianceContextKey, compliance):
\* a context is the sequence of the filters that have added to it
BaseContext == <<>>

\* One invocation of a filter: f(ctx, w, r)
FilterCall(i, got) == [filter |-> i, got |-> got]

\* The filter loop with the context declared anew in each iteration, so that
\* every filter is handed the base context
RECURSIVE runFilters_shadowedCtx(_, _, _, _)
runFilters_shadowedCtx(i, c, calls, r) ==
    IF i > NFilters THEN [ctx |-> c, calls |-> calls, err |-> "nil"]
    ELSE IF r.failAt = i
    THEN [ctx |-> c, calls |-> Append(calls, FilterCall(i, BaseContext)), err |-> "Filter"]
    ELSE runFilters_shadowedCtx(i + 1, Append(BaseContext, i),
                                Append(calls, FilterCall(i, BaseContext)), r)

\* for _, f := range srv.Filters { if ctx, err = f(ctx, w, r); err != nil {...} }
\* from filter i on.  srv.Filters is 1 .. NFilters in configured order; filter i
\* returns the context it was given with its own value added, or, when
\* r.failAt = i, an error.
RECURSIVE runFilters(_, _, _, _)
runFilters(i, c, calls, r) ==
    IF i > NFilters THEN [ctx |-> c, calls |-> calls, err |-> "nil"]
    ELSE IF r.failAt = i
    THEN [ctx |-> c, calls |-> Append(calls, FilterCall(i, c)), err |-> "Filter"]
    ELSE runFilters(i + 1, Append(c, i), Append(calls, FilterCall(i, c)), r)

\* Server.ServeHTTP after compliance has been determined.  r.failAt is the
\* first filter that fails (0: none does)
ServerServeHTTP(s, c, r) ==
    IF runFilters(1, BaseContext, <<>>, r).err # "nil"
    THEN Routed("filter", "none", Wrote(handleErr("Filter")))
    ELSE IF r.op1 = "" /\ r.method = "OPTIONS"
    THEN Routed("rootOptions", "none", NoResult)
    ELSE IF r.op1 = "" /\ r.method = "GET" /\ s.webApp
    THEN Routed("rootRedirect", "none", Wrote(<<HttpError(301, "app")>>))
    ELSE IF findDevice(r) # "nil"
    THEN Routed("device", "none", Wrote(handleErr(findDevice(r))))
    ELSE CASE r.op1 = ".ver" -> Routed("ver", "none", Wrote(<<Body("raw", FALSE, FALSE)>>))
           [] r.op1 = ".well-known" -> Routed("wellknown", "none", Wrote(<<Body("raw", FALSE, FALSE)>>))
           [] r.op1 = "restconf" -> serveRestconf(c, r)
           [] OTHER -> serveOther(s, r)

-----------------------------------------------------------------------------
(* The requests the model draws *)

Methods == {"GET", "POST", "PUT", "PATCH", "DELETE", "OPTIONS", "HEAD"}

ContentTypes == {"", YangDataJsonMimeType1, YangDataJsonMimeType2, YangDataXmlMimeType1,
                 YangDataXmlMimeType2, PlainJsonMimeType, MultipartFormMimeType}

AcceptTypes == {"", YangDataJsonMimeType1, YangDataJsonMimeType2, YangDataXmlMimeType1,
                YangDataXmlMimeType2, TextStreamMimeType, PlainJsonMimeType}

\* The address of a request whose address is never read
NoAddress == [op1 |-> "", device |-> "main", op2 |-> "-", module |-> "-"]

Address(o1, d, o2, m) == [op1 |-> o1, device |-> d, op2 |-> o2, module |-> m]

\* The addresses, each field held at "-" where the server does not read it
Addresses ==
    {Address("", "main", "-", "-")}
    \cup {Address(o1, d, "-", "-") :
            o1 \in {".ver", ".well-known", "app", "other"},
            d \in {"main", "known", "unknown", "err"}}
    \cup {Address("restconf", d, "-", "-") : d \in {"unknown", "err"}}
    \cup {Address("restconf", d, "bogus", "-") : d \in {"main", "known"}}
    \cup {Address("restconf", d, o2, m) :
            d \in {"main", "known"}, o2 \in {"ui", "schema"},
            m \in {"known", "unknown", "err"}}
    \cup {Address("restconf", d, o2, m) :
            d \in {"main", "known"}, o2 \in {"data", "streams", "operations"},
            m \in {"none", "known", "unknown", "err"}}

Target(s, k, d, hi, ho, b, f, o, ar, so) ==
    [sel |-> s, kind |-> k, depth |-> d, hasInput |-> hi, hasOutput |-> ho,
     body |-> b, formOk |-> f, opOk |-> o, actRes |-> ar, subOk |-> so]

\* The target of a request that reaches no browser handler
NoTarget == Target("-", "-", 0, FALSE, FALSE, "-", TRUE, TRUE, "-", TRUE)

Unresolved ==
    {Target(s, "-", 0, FALSE, FALSE, "-", TRUE, TRUE, "-", TRUE) : s \in {"err", "nil"}}

Kinds == {"container", "action", "notification"}

Bodies == {"jsonWrapped", "jsonBare", "xmlDoc", "malformed"}

\* A node on which one tree operation runs
Plain(k, o) == Target("ok", k, 0, FALSE, FALSE, "-", TRUE, o, "-", TRUE)

\* A node whose request body is decoded by requestNode before the operation
Decoded(k, f, o) == Target("ok", k, 0, FALSE, FALSE, "-", f, o, "-", TRUE)

\* A node whose request body, not a multipart form, is handed to the operation
\* by requestNode: a JSON document or a malformed one, which no operation accepts
WithBody(k, b, o) == Target("ok", k, 0, FALSE, FALSE, b, TRUE, o, "-", TRUE)

\* The action targets of a POST
ActionTargets(multipart) ==
    UNION {
        {Target("ok", "action", d, hi, ho, b, f, o, ar, TRUE) :
            ho \in IF ar = "out" THEN BOOLEAN ELSE {FALSE},
            o \in IF ar = "out" THEN BOOLEAN ELSE {TRUE}} :
        d \in 1 .. 3, hi \in BOOLEAN, b \in Bodies \cup {"-"}, f \in BOOLEAN,
        ar \in {"err", "nil", "out"}}

CanonicalAction(t, multipart) ==
    /\ (t.body # "-") = (t.hasInput /\ ~multipart)
    /\ (~t.formOk => t.hasInput /\ multipart)
    /\ (~t.opOk => t.hasOutput)

\* The targets of a method: each field the handler does not read for that method
\* holds its default
Targets(m, multipart) ==
    Unresolved \cup
    CASE m = "DELETE" -> {Plain(k, o) : k \in Kinds, o \in BOOLEAN}
      [] m = "GET" ->
            {Plain(k, o) : k \in {"container", "action"}, o \in BOOLEAN}
            \cup {Target("ok", "notification", 0, FALSE, FALSE, "-", TRUE, TRUE, "-", so) :
                    so \in BOOLEAN}
      [] m \in {"PATCH", "PUT"} ->
            IF multipart
            THEN {Decoded(k, TRUE, o) : k \in Kinds, o \in BOOLEAN}
                 \cup {Decoded(k, FALSE, TRUE) : k \in Kinds}
            ELSE {WithBody(k, "jsonBare", o) : k \in Kinds, o \in BOOLEAN}
                 \cup {WithBody(k, "malformed", FALSE) : k \in Kinds}
      [] m = "POST" ->
            {Plain(k, o) : k \in {"container", "notification"}, o \in BOOLEAN}
            \cup {t \in ActionTargets(multipart) : CanonicalAction(t, multipart)}
      [] OTHER -> {Plain(k, TRUE) : k \in Kinds}

Request(m, ctp, ac, q, fa, a, t) ==
    [method |-> m, contentType |-> ctp, accept |-> ac, simplified |-> q, failAt |-> fa,
     op1 |-> a.op1, device |-> a.device, op2 |-> a.op2, module |-> a.module,
     sel |-> t.sel, kind |-> t.kind, depth |-> t.depth, hasInput |-> t.hasInput,
     hasOutput |-> t.hasOutput, body |-> t.body, formOk |-> t.formOk, opOk |-> t.opOk,
     actRes |-> t.actRes, subOk |-> t.subOk]

NoRequest == Request("", "", "", FALSE, 0, NoAddress, NoTarget)

-----------------------------------------------------------------------------
(* The error channel: a buffered channel of capacity ErrChanCap of which the *)
(* handler receives at most once, so its first element and its length are    *)
(* all that is ever observed                                                 *)

EmptyChan == [head |-> "nil", len |-> 0]

ChanSend(ch, e) ==
    [head |-> IF ch.len = 0 THEN e ELSE ch.head, len |-> ch.len + 1]

ChanRecv(ch) ==
    [head |-> IF ch.len = 1 THEN "nil" ELSE "later", len |-> ch.len - 1]

Producers == 1 .. NProducers

\* The goroutines net/http runs browserHandler.ServeHTTP on, one for each
\* subscription request under way
Handlers == 1 .. NHandlers

\* var buf bytes.Buffer: the chunks written into it so far
NoFrame == <<>>

\* buf.Bytes(): the chunks of a buffer as one byte string
RECURSIVE Bytes(_)
Bytes(chunks) ==
    IF chunks = <<>> THEN "" ELSE Head(chunks) \o Bytes(Tail(chunks))

\* A time.Time: the wall-clock fields and the zone offset in minutes
Time(y, mo, d, h, mi, sec, off) ==
    [year |-> y, month |-> mo, day |-> d, hour |-> h, minute |-> mi, second |-> sec,
     offset |-> off]

\* node.Notification: the event's time and its payload (a selection, here its number)
Notification(e) ==
    [EventTime |-> Time(2024, e, 9, 7 + e, 5, 0, IF e % 2 = 1 THEN 120 ELSE 0 - 330),
     Event |-> e]

\* The callback's argument while no callback runs
NoNotification == [EventTime |-> Time(1, 1, 1, 0, 0, 0, 0), Event |-> 0]

\* A number in two digits, as the layout elements 01, 02, 15, 04, 05 and 07 print it
Pad2(n) ==
    IF n < 10 THEN "0" \o ToString(n) ELSE ToString(n)

\* A year in four digits, as the layout element 2006 prints it
Pad4(n) ==
    IF n < 10 THEN "000" \o ToString(n)
    ELSE IF n < 100 THEN "00" \o ToString(n)
    ELSE IF n < 1000 THEN "0" \o ToString(n)
    ELSE ToString(n)

\* t.Format(EventTimeFormat) with EventTimeFormat = "2006-01-02T15:04:05-07:00"
FormatEventTime(t) ==
    LET mag == IF t.offset < 0 THEN 0 - t.offset ELSE t.offset
    IN Pad4(t.year) \o "-" \o Pad2(t.month) \o "-" \o Pad2(t.day) \o "T"
       \o Pad2(t.hour) \o ":" \o Pad2(t.minute) \o ":" \o Pad2(t.second)
       \o (IF t.offset < 0 THEN "-" ELSE "+")
       \o Pad2(mag \div 60) \o ":" \o Pad2(mag % 60)

\* What n.Event.InsertInto(jsonWtr(compliance, &buf)) writes for an event that
\* encodes: the event's JSON, its name qualified by the module unless disabled
Payload(c, e) ==
    "{\"" \o (IF c.QualifyNamespaceDisabled THEN "" ELSE "acme:") \o "event\":"
    \o ToString(e) \o "}"

-----------------------------------------------------------------------------
(* The state machine *)

Servers ==
    [OnlyStrictCompliance : BOOLEAN, webApp : {TRUE}, unhandled : {TRUE}]

TypicalIdle ==
    /\ phase = "idle"
    /\ req = NoRequest
    /\ compliance = Simplified
    /\ route = "none"
    /\ endpoint = "none"
    /\ branch = "none"
    /\ ops = <<>>
    /\ out = <<>>
    /\ ctype = ""
    /\ fcalls = <<>>
    /\ ctx = BaseContext
    /\ subscribeCount = 0
    /\ hpc = "none"
    /\ herr = "nil"
    /\ registered = FALSE
    /\ errOnSend = EmptyChan
    /\ ppc = [p \in Producers |-> "idle"]
    /\ pbuf = [p \in Producers |-> NoFrame]
    /\ pn = [p \in Producers |-> NoNotification]
    /\ conn = <<>>
    /\ nextEvent = 1
    /\ spc = [h \in Handlers |-> "start"]
    /\ sval = [h \in Handlers |-> 0]

Init ==
    /\ srv \in Servers
    /\ TypicalIdle

\* One request served by Server.ServeHTTP, up to its return or, for a
\* subscription, up to the handler's blocking select
Handle(r) ==
    \E c \in {determineCompliance(srv, r)} :
      \E d \in {ServerServeHTTP(srv, c, r)} :
        \E live \in {d.res.stream = "live"}, f \in {runFilters(1, BaseContext, <<>>, r)} :
          /\ req' = r
          /\ fcalls' = f.calls
          /\ ctx' = f.ctx
          /\ compliance' = c
          /\ route' = d.route
          /\ endpoint' = d.endpoint
          /\ branch' = d.res.branch
          /\ ops' = d.res.ops
          /\ out' = d.res.out
          /\ ctype' = d.res.ctype
          /\ phase' = IF live THEN "streaming" ELSE "done"
          /\ subscribeCount' = IF live THEN subscribeCount + 1 ELSE subscribeCount
          /\ hpc' = IF live THEN "select" ELSE hpc
          /\ registered' = live
          /\ UNCHANGED <<srv, herr, errOnSend, ppc, pbuf, pn, conn, nextEvent, countVars>>

ServeHTTP ==
    /\ phase = "idle"
    /\ \E m \in Methods, ctp \in ContentTypes, ac \in AcceptTypes, q \in BOOLEAN,
          fa \in 0 .. NFilters :
         \E a \in IF fa > 0 THEN {NoAddress} ELSE Addresses :
            LET r0 == Request(m, ctp, ac, q, fa, a, NoTarget)
                reaches == ServerServeHTTP(srv, determineCompliance(srv, r0), r0).route
                               = "browser"
            IN \E t \in IF reaches THEN Targets(m, ctp = MultipartFormMimeType)
                                   ELSE {NoTarget} :
                  \E r \in {Request(m, ctp, ac, q, fa, a, t)} : Handle(r)

\* select: case <-r.Context().Done()
HandlerCtxDone ==
    /\ hpc = "select"
    /\ hpc' = "unsub"
    /\ UNCHANGED <<reqVars, countVars, subscribeCount, herr, registered, errOnSend, ppc, pbuf,
                   pn, conn, nextEvent>>

\* The receive that prints the error and goes back to waiting
HandlerRecvErr_keepsOpen ==
    /\ hpc = "select"
    /\ errOnSend.len > 0
    /\ herr' = errOnSend.head
    /\ errOnSend' = ChanRecv(errOnSend)
    /\ hpc' = "select"
    /\ UNCHANGED <<reqVars, countVars, subscribeCount, registered, ppc, pbuf, pn, conn, nextEvent>>

\* select: case err = <-errOnSend
HandlerRecvErr ==
    /\ hpc = "select"
    /\ errOnSend.len > 0
    /\ herr' = errOnSend.head
    /\ errOnSend' = ChanRecv(errOnSend)
    /\ hpc' = "unsub"
    /\ UNCHANGED <<reqVars, countVars, subscribeCount, registered, ppc, pbuf, pn, conn, nextEvent>>

\* defer sub()
HandlerUnsubscribe ==
    /\ hpc = "unsub"
    /\ registered' = FALSE
    /\ hpc' = "decr"
    /\ UNCHANGED <<reqVars, countVars, subscribeCount, herr, errOnSend, ppc, pbuf, pn, conn,
                   nextEvent>>

\* defer func() { subscribeCount-- }(), and the handler returns
HandlerReturn ==
    /\ hpc = "decr"
    /\ subscribeCount' = subscribeCount - 1
    /\ hpc' = "returned"
    /\ phase' = "done"
    /\ UNCHANGED <<srv, req, compliance, route, endpoint, branch, ops, out, ctype,
                   fcalls, ctx, herr, registered, errOnSend, ppc, pbuf, pn, conn,
                   nextEvent, countVars>>

\* The next request finds the server as it was
Reset ==
    /\ phase = "done"
    /\ phase' = "idle"
    /\ req' = NoRequest
    /\ compliance' = Simplified
    /\ route' = "none"
    /\ endpoint' = "none"
    /\ branch' = "none"
    /\ ops' = <<>>
    /\ out' = <<>>
    /\ ctype' = ""
    /\ fcalls' = <<>>
    /\ ctx' = BaseContext
    /\ hpc' = "none"
    /\ herr' = "nil"
    /\ errOnSend' = EmptyChan
    /\ ppc' = [p \in Producers |-> "idle"]
    /\ pbuf' = [p \in Producers |-> NoFrame]
    /\ pn' = [p \in Producers |-> NoNotification]
    /\ conn' = <<>>
    /\ nextEvent' = 1
    /\ UNCHANGED <<srv, subscribeCount, registered, countVars>>

Next ==
    \/ ServeHTTP
    \/ HandlerCtxDone
    \/ HandlerUnsubscribe
    \/ HandlerReturn
    \/ Reset

Spec == Init /\ [][Next]_vars

-----------------------------------------------------------------------------
(* The notification stream: the callback registered with the event source,   *)
(* run by the event source's own goroutines while the handler blocks in its  *)
(* select.  ppc[p] is where producer p stands inside the callback:           *)
(*   "idle"       not in the callback                                        *)
(*   "write"      the frame is rendered in its buffer, w.Write is next       *)
(*   "sendEncode" InsertInto failed,   errOnSend <- err is next              *)
(*   "sendWrite"  w.Write failed,      errOnSend <- err is next              *)
(*   "writing"    w.Write was cut by an overlapping call, its rest is next   *)
(*   "panic"      a panic is unwinding the callback                          *)
(*   "sendPanic"  recover() caught a panic, errOnSend <- err is next         *)

\* The subscriptions the stream specification opens: a GET on a notification
\* node of the streams endpoint, with and without the event-stream Accept
StreamRequests ==
    {Request("GET", "", ac, FALSE, 0, Address("restconf", "main", "streams", "known"),
             Target("ok", "notification", 0, FALSE, FALSE, "-", TRUE, TRUE, "-", TRUE)) :
        ac \in {"", TextStreamMimeType}}

\* The rendering that leaves the notification wrapper open
Render_unclosedWrapper(c, n) ==
    <<"data: ">>
    \o (IF ~c.DisableNotificationWrapper
        THEN <<"{\"ietf-restconf:notification\":{\"eventTime\":\""
               \o FormatEventTime(n.EventTime) \o "\",\"event\":">>
        ELSE <<>>)
    \o <<Payload(c, n.Event)>>
    \o <<"\n\n">>

\* What the callback puts into buf for a notification that encodes, one chunk
\* for each write into the buffer: "data: ", the wrapper's head with the event
\* time unless the wrapper is disabled, the encoded event, the wrapper's end
\* unless disabled, and the blank line
Render(c, n) ==
    <<"data: ">>
    \o (IF ~c.DisableNotificationWrapper
        THEN <<"{\"ietf-restconf:notification\":{\"eventTime\":\""
               \o FormatEventTime(n.EventTime) \o "\",\"event\":">>
        ELSE <<>>)
    \o <<Payload(c, n.Event)>>
    \o (IF ~c.DisableNotificationWrapper THEN <<"}}">> ELSE <<>>)
    \o <<"\n\n">>

Subscribe ==
    /\ phase = "idle"
    /\ \E r \in StreamRequests : Handle(r)

\* The callback with its buffer declared outside of it: each invocation
\* renders after what the invocations before it have put on the connection
Deliver_sharedBuffer(p) ==
    /\ registered
    /\ ppc[p] = "idle"
    /\ nextEvent <= MaxEvents
    /\ pn' = [pn EXCEPT ![p] = Notification(nextEvent)]
    /\ pbuf' = [pbuf EXCEPT ![p] = conn \o Render(compliance, Notification(nextEvent))]
    /\ nextEvent' = nextEvent + 1
    /\ ppc' = [ppc EXCEPT ![p] = "write"]
    /\ UNCHANGED <<reqVars, countVars, subscribeCount, hpc, herr, registered,
                   errOnSend, conn>>

\* The event source invokes the callback with a notification that encodes: the
\* frame is rendered into the callback's own buffer
Deliver(p) ==
    /\ registered
    /\ ppc[p] = "idle"
    /\ nextEvent <= MaxEvents
    /\ pn' = [pn EXCEPT ![p] = Notification(nextEvent)]
    /\ pbuf' = [pbuf EXCEPT ![p] = Render(compliance, Notification(nextEvent))]
    /\ nextEvent' = nextEvent + 1
    /\ ppc' = [ppc EXCEPT ![p] = "write"]
    /\ UNCHANGED <<reqVars, countVars, subscribeCount, hpc, herr, registered, errOnSend, conn>>

\* The event source invokes the callback with a notification that does not
\* encode: InsertInto reports an error, or panics, and the buffer is dropped
DeliverBad(p) ==
    /\ registered
    /\ ppc[p] = "idle"
    /\ \/ ppc' = [ppc EXCEPT ![p] = "sendEncode"]
       \/ ppc' = [ppc EXCEPT ![p] = "panic"]
    /\ UNCHANGED <<reqVars, countVars, subscribeCount, hpc, herr, registered, errOnSend, pbuf, pn,
                   conn, nextEvent>>

\* Another callback is inside w.Write at the same time
WriteOverlaps(p) ==
    \E q \in Producers : q # p /\ ppc[q] \in {"write", "writing"}

\* _, err = w.Write(buf.Bytes()), then flusher.Flush() and the return.  The
\* callbacks share w without a lock: a call that runs alone puts its bytes on
\* the connection in one piece, fails, or panics; a call that overlaps another
\* may also be cut, a first part of its bytes reaching the connection now and
\* the rest later (the cut is placed after the buffer's first chunk).
Write(p) ==
    /\ ppc[p] = "write"
    /\ \/ /\ conn' = Append(conn, Bytes(pbuf[p]))
          /\ ppc' = [ppc EXCEPT ![p] = "idle"]
          /\ pbuf' = [pbuf EXCEPT ![p] = NoFrame]
          /\ pn' = [pn EXCEPT ![p] = NoNotification]
       \/ /\ ppc' = [ppc EXCEPT ![p] = "sendWrite"]
          /\ pbuf' = [pbuf EXCEPT ![p] = NoFrame]
          /\ pn' = [pn EXCEPT ![p] = NoNotification]
          /\ UNCHANGED conn
       \/ /\ ppc' = [ppc EXCEPT ![p] = "panic"]
          /\ pbuf' = [pbuf EXCEPT ![p] = NoFrame]
          /\ pn' = [pn EXCEPT ![p] = NoNotification]
          /\ UNCHANGED conn
       \/ /\ WriteOverlaps(p)
          /\ conn' = Append(conn, Head(pbuf[p]))
          /\ pbuf' = [pbuf EXCEPT ![p] = Tail(pbuf[p])]
          /\ ppc' = [ppc EXCEPT ![p] = "writing"]
          /\ UNCHANGED pn
    /\ UNCHANGED <<reqVars, countVars, subscribeCount, hpc, herr, registered, errOnSend, nextEvent>>

\* The rest of a cut w.Write reaches the connection
WriteRest(p) ==
    /\ ppc[p] = "writing"
    /\ conn' = Append(conn, Bytes(pbuf[p]))
    /\ ppc' = [ppc EXCEPT ![p] = "idle"]
    /\ pbuf' = [pbuf EXCEPT ![p] = NoFrame]
    /\ pn' = [pn EXCEPT ![p] = NoNotification]
    /\ UNCHANGED <<reqVars, countVars, subscribeCount, hpc, herr, registered, errOnSend, nextEvent>>

\* The deferred function that lets the panic go on instead of recovering it
Recover_repanics(p) ==
    /\ ppc[p] = "panic"
    /\ ppc' = [ppc EXCEPT ![p] = "escaped"]
    /\ UNCHANGED <<reqVars, countVars, subscribeCount, hpc, herr, registered, errOnSend, pbuf, pn,
                   conn, nextEvent>>

\* defer func() { if r := recover(); r != nil { ...; errOnSend <- err } }(): the
\* panic is stopped at the callback's boundary and its error is about to be sent
Recover(p) ==
    /\ ppc[p] = "panic"
    /\ ppc' = [ppc EXCEPT ![p] = "sendPanic"]
    /\ UNCHANGED <<reqVars, countVars, subscribeCount, hpc, herr, registered, errOnSend, pbuf, pn,
                   conn, nextEvent>>

SendStates == {"sendEncode", "sendWrite", "sendPanic"}

ErrorOf(pc) ==
    CASE pc = "sendEncode" -> "encode"
      [] pc = "sendWrite" -> "write"
      [] OTHER -> "panic"

\* errOnSend <- err: a send on the buffered channel, which waits while the
\* buffer is full; the callback then returns
Send(p) ==
    /\ ppc[p] \in SendStates
    /\ errOnSend.len < ErrChanCap
    /\ errOnSend' = ChanSend(errOnSend, ErrorOf(ppc[p]))
    /\ ppc' = [ppc EXCEPT ![p] = "idle"]
    /\ UNCHANGED <<reqVars, countVars, subscribeCount, hpc, herr, registered, pbuf, pn, conn,
                   nextEvent>>

InitStream ==
    /\ srv = [OnlyStrictCompliance |-> FALSE, webApp |-> TRUE, unhandled |-> TRUE]
    /\ TypicalIdle

NextStream ==
    \/ Subscribe
    \/ HandlerCtxDone
    \/ HandlerRecvErr
    \/ HandlerUnsubscribe
    \/ HandlerReturn
    \/ \E p \in Producers : Deliver(p)
    \/ \E p \in Producers : DeliverBad(p)
    \/ \E p \in Producers : Write(p)
    \/ \E p \in Producers : WriteRest(p)
    \/ \E p \in Producers : Recover(p)
    \/ \E p \in Producers : Send(p)

SpecStream == InitStream /\ [][NextStream]_vars

\* The scheduling the runtime gives: a goroutine that can take a step takes it.
\* The handler's receive and its deferred calls, and each callback's steps once
\* it is inside the callback, are not postponed forever; the client is free
\* never to disconnect and the event source never to deliver.
FairStream ==
    /\ WF_vars(HandlerRecvErr)
    /\ WF_vars(HandlerUnsubscribe)
    /\ WF_vars(HandlerReturn)
    /\ \A p \in Producers :
          WF_vars(Write(p)) /\ WF_vars(WriteRest(p)) /\ WF_vars(Recover(p)) /\ WF_vars(Send(p))

SpecStreamFair == SpecStream /\ FairStream

\* The stream of an event source all of whose events encode: errors come from
\* the writes to the connection alone
NextFrames ==
    \/ Subscribe
    \/ HandlerCtxDone
    \/ HandlerRecvErr
    \/ HandlerUnsubscribe
    \/ HandlerReturn
    \/ \E p \in Producers : Deliver(p)
    \/ \E p \in Producers : Write(p)
    \/ \E p \in Producers : WriteRest(p)
    \/ \E p \in Producers : Recover(p)
    \/ \E p \in Producers : Send(p)

SpecFrames == InitStream /\ [][NextFrames]_vars

-----------------------------------------------------------------------------
(* An event source that invokes the callback sequentially: an invocation     *)
(* starts only when the one before it has returned, on whichever goroutine.  *)

DeliverInTurn(p) ==
    /\ \A q \in Producers : ppc[q] = "idle"
    /\ Deliver(p)

NextSequential ==
    \/ Subscribe
    \/ HandlerCtxDone
    \/ HandlerRecvErr
    \/ HandlerUnsubscribe
    \/ HandlerReturn
    \/ \E p \in Producers : DeliverInTurn(p)
    \/ \E p \in Producers : Write(p)
    \/ \E p \in Producers : Recover(p)
    \/ \E p \in Producers : Send(p)

SpecSequential == InitStream /\ [][NextSequential]_vars

-----------------------------------------------------------------------------
(* Several subscription requests at once.  Each runs the GET case of the     *)
(* method switch on a goroutine of its own; subscribeCount is a package      *)
(* variable of type int that they read and write with no lock and no atomic: *)
(* the ++ and the -- are each a read of the variable and a later write.      *)

\* subscribeCount++: the read
IncrementRead(h) ==
    /\ spc[h] = "start"
    /\ sval' = [sval EXCEPT ![h] = subscribeCount]
    /\ spc' = [spc EXCEPT ![h] = "incr"]
    /\ UNCHANGED <<reqVars, streamVars, subscribeCount>>

\* subscribeCount++: the write
IncrementWrite(h) ==
    /\ spc[h] = "incr"
    /\ subscribeCount' = sval[h] + 1
    /\ spc' = [spc EXCEPT ![h] = "notify"]
    /\ UNCHANGED <<reqVars, streamVars, sval>>

\* sub, err = sel.Notifications(...): on an error the handler returns, with
\* the decrement deferred and no closer to call; otherwise defer sub() and
\* the select
Register(h) ==
    /\ spc[h] = "notify"
    /\ \E ok \in BOOLEAN :
          spc' = [spc EXCEPT ![h] = IF ok THEN "select" ELSE "decr"]
    /\ UNCHANGED <<reqVars, streamVars, subscribeCount, sval>>

\* The select returns: the client went away or a callback reported an error
LeaveSelect(h) ==
    /\ spc[h] = "select"
    /\ spc' = [spc EXCEPT ![h] = "unsub"]
    /\ UNCHANGED <<reqVars, streamVars, subscribeCount, sval>>

\* defer sub()
Unsubscribe(h) ==
    /\ spc[h] = "unsub"
    /\ spc' = [spc EXCEPT ![h] = "decr"]
    /\ UNCHANGED <<reqVars, streamVars, subscribeCount, sval>>

\* defer func() { subscribeCount-- }(): the read
DecrementRead(h) ==
    /\ spc[h] = "decr"
    /\ sval' = [sval EXCEPT ![h] = subscribeCount]
    /\ spc' = [spc EXCEPT ![h] = "decrWrite"]
    /\ UNCHANGED <<reqVars, streamVars, subscribeCount>>

\* defer func() { subscribeCount-- }(): the write, and the handler returns
DecrementWrite(h) ==
    /\ spc[h] = "decrWrite"
    /\ subscribeCount' = sval[h] - 1
    /\ spc' = [spc EXCEPT ![h] = "returned"]
    /\ UNCHANGED <<reqVars, streamVars, sval>>

NextSubscribers ==
    \/ \E h \in Handlers : IncrementRead(h)
    \/ \E h \in Handlers : IncrementWrite(h)
    \/ \E h \in Handlers : Register(h)
    \/ \E h \in Handlers : LeaveSelect(h)
    \/ \E h \in Handlers : Unsubscribe(h)
    \/ \E h \in Handlers : DecrementRead(h)
    \/ \E h \in Handlers : DecrementWrite(h)

SpecSubscribers == InitStream /\ [][NextSubscribers]_vars

-----------------------------------------------------------------------------
(* Properties *)

Served == phase # "idle"

\* The request reached browserHandler.ServeHTTP and its address resolved to a node
Resolved == Served /\ route = "browser" /\ req.sel = "ok"

IsRpcPost == req.method = "POST" /\ req.kind = "action"

MutatingOps == {"Delete", "ReplaceFrom", "UpsertFrom", "InsertFrom", "Action"}

Invoked(op) == \E i \in DOMAIN ops : ops[i] = op

OperationsOnly400 ==
    HttpError(400, "{+restconf}/operations is only intended for rpcs")

RpcUnderData400 ==
    HttpError(400, "rpcs are located at {+restconf}/operations not {+restconf}/data")

\* C1: an event whose payload fails to encode does not end the subscription:
\* the streaming handler never leaves its select because of a reported encode error.
C1_EncodeErrorKeepsStreamOpen ==
    hpc \in {"unsub", "decr", "returned"} => herr # "encode"

\* C2: reporting a failure on the error channel never blocks the callback: no
\* callback is left waiting to send on a full channel that nobody receives from.
C2_ReportNeverBlocks ==
    \A p \in Producers :
        ppc[p] \in SendStates => (errOnSend.len < ErrChanCap \/ hpc = "select")

\* C3: a request on the operations endpoint that is not a POST to an action is
\* answered with the 400 alone and runs no tree operation.
C3_OperationsMisuseRejected ==
    (Resolved /\ endpoint = endpointOperations /\ ~IsRpcPost)
        => (out = <<OperationsOnly400>> /\ ops = <<>>)

\* C4: a POST to an action through the data endpoint is rejected with 400,
\* without invoking the action, when the path depth is <= 2 and
\* AllowRpcUnderData is false; it is dispatched as an action when the depth is
\* > 2 or AllowRpcUnderData is true; through the operations endpoint it is
\* always dispatched as an action.
C4_RpcUnderData ==
    (Resolved /\ IsRpcPost) =>
        /\ (endpoint = endpointData /\ req.depth <= 2 /\ ~compliance.AllowRpcUnderData)
              => (out = <<RpcUnderData400>> /\ ops = <<>> /\ branch = "none")
        /\ (endpoint = endpointData /\ (req.depth > 2 \/ compliance.AllowRpcUnderData))
              => (branch = "rpc" /\ (~req.hasInput => Invoked("Action")))
        /\ endpoint = endpointOperations
              => (branch = "rpc" /\ (~req.hasInput => Invoked("Action")))

\* C4's case: a top-level rpc posted under data in strict mode was rejected
C4_Witness ==
    /\ Resolved /\ IsRpcPost
    /\ endpoint = endpointData /\ req.depth = 2 /\ ~compliance.AllowRpcUnderData
    /\ out = <<RpcUnderData400>>

\* C5: a nil selection is answered 404 and a failed resolution with the
\* resolution's error; either way, whatever the method, no tree operation and
\* no subscription is attempted and the live-subscription counter is unchanged.
C5_UnresolvedShortCircuits ==
    (Served /\ route = "browser" /\ req.sel \in {"nil", "err"}) =>
        /\ ops = <<>>
        /\ phase = "done" /\ hpc = "none" /\ ~registered
        /\ subscribeCount = 0
        /\ req.sel = "nil" => out = <<HttpError(404, "Not Found")>>
        /\ req.sel = "err" =>
              (Len(out) = 1 /\ out[1].kind = "error" /\ out[1].detail = "Resolve")

\* C5's case: a DELETE on a path that names no node was answered 404
C5_Witness ==
    /\ Served /\ route = "browser" /\ req.sel = "nil" /\ req.method = "DELETE"
    /\ out = <<HttpError(404, "Not Found")>>

\* C6: compliance negotiation is first-match: OnlyStrictCompliance gives Strict
\* even with the simplified query flag; otherwise the simplified query flag
\* gives Simplified whatever Content-Type and Accept say.
C6_NegotiationOrder ==
    Served =>
        /\ srv.OnlyStrictCompliance => compliance = Strict
        /\ (~srv.OnlyStrictCompliance /\ req.simplified) => compliance = Simplified

\* C6's case: the always-strict flag won over the simplified query flag
C6_Witness ==
    /\ Served /\ srv.OnlyStrictCompliance /\ req.simplified
    /\ req.accept = "" /\ req.contentType = ""
    /\ compliance = Strict

YangDataTypes ==
    {"application/yang-data+json", "application/yang.data+json",
     "application/yang-data+xml", "application/yang.data+xml"}

\* C7: without the always-strict flag and the simplified query flag, a request
\* whose Content-Type and Accept are no YANG-data type (and whose Accept is not
\* the event-stream type) resolves to Simplified; one whose Content-Type or
\* Accept is a YANG-data JSON or XML type, in either spelling, or whose Accept
\* is the event-stream type, resolves to Strict.
C7_HeaderNegotiation ==
    (Served /\ ~srv.OnlyStrictCompliance /\ ~req.simplified) =>
        IF \/ req.contentType \in YangDataTypes
           \/ req.accept \in YangDataTypes
           \/ req.accept = "text/event-stream"
        THEN compliance = Strict
        ELSE compliance = Simplified

\* C7's case: the Content-Type alone, in its second XML spelling, gave Strict
C7_Witness ==
    /\ Served /\ ~srv.OnlyStrictCompliance /\ ~req.simplified
    /\ req.contentType = "application/yang.data+xml" /\ req.accept = ""
    /\ compliance = Strict

\* C8: a data, operations or streams request whose path has no module segment
\* is rejected as a bad-address error, answered 400, and reaches no browser handler.
C8_NoModuleIsBadAddress ==
    (Served /\ req.op2 \in {"data", "operations", "streams"} /\ req.module = "none") =>
        /\ endpoint = "none"
        /\ out = <<HttpError(400, "BadAddress")>>

\* C9: a DELETE, PUT, PATCH or POST through the streams or schema endpoint
\* invokes no mutating tree operation and no action.
C9_StreamsAndSchemaReadOnly ==
    (Served /\ req.op2 \in {"streams", "schema"}
            /\ req.method \in {"DELETE", "PUT", "PATCH", "POST"}) =>
        \A i \in DOMAIN ops : ops[i] \notin MutatingOps

\* C10: the response body is produced by the encoder the Content-Type header
\* names: the XML encoder under an XML type, the JSON encoder under a JSON type.
C10_BodyMatchesContentType ==
    (Resolved /\ (branch = "rpc" \/ (branch = "read" /\ req.kind = "container"))) =>
        \A i \in DOMAIN out :
            out[i].kind = "body" =>
                /\ ctype \in {YangDataXmlMimeType1, MimeXml} => out[i].detail = "xml"
                /\ ctype \in {YangDataJsonMimeType1, MimeJson} => out[i].detail = "json"

\* The action of a POST ran and gave an output selection for a declared output
ActionGaveOutput ==
    Resolved /\ branch = "rpc" /\ Invoked("Action") /\ req.actRes = "out" /\ req.hasOutput

\* C11: an action's output that encodes without error is always written by an
\* encoder: with the action wrapper enabled, the wrapped JSON document under a
\* JSON content type and the bare XML document under an XML content type; with
\* the wrapper disabled, the bare output in the codec the content type names.
C11_ActionOutputAlwaysEncoded ==
    (ActionGaveOutput /\ req.opOk) =>
        \E i \in DOMAIN out :
            /\ out[i].kind = "body"
            /\ out[i].detail = IF ctype \in {YangDataXmlMimeType1, MimeXml} THEN "xml" ELSE "json"
            /\ out[i].wrap = (~compliance.DisableActionWrapper /\ out[i].detail = "json")

\* C12: a POST to an action that declares input, handled with the action
\* wrapper enabled and a JSON body {"<module>:input": X}, invokes the action,
\* whichever of Content-Type, Accept or the always-strict flag enabled the wrapper.
C12_WrappedJsonInputAccepted ==
    (Resolved /\ branch = "rpc" /\ req.hasInput /\ ~compliance.DisableActionWrapper
        /\ req.body = "jsonWrapped")
        => Invoked("Action")

\* The last thing written to the response is the decode error
DecodeErrorReported ==
    /\ Len(out) > 0
    /\ out[Len(out)].kind = "error"
    /\ out[Len(out)].detail = "Decode"

\* A POST to an action with declared input, the wrapper enabled and a body,
\* not a multipart form, that has no object under the input key or does not parse
BadWrappedInput ==
    /\ Resolved /\ branch = "rpc" /\ req.hasInput /\ ~compliance.DisableActionWrapper
    /\ req.contentType # MultipartFormMimeType
    /\ req.body \in {"jsonBare", "malformed"}

C19_NothingAfterError ==
    Served => \A i \in DOMAIN out : out[i].kind = "error" => i = Len(out)

\* C20: the filters run in configured order, each handed the context the one
\* before returned; when filter k fails it is the last to run, one error is
\* reported, and no device is resolved, no endpoint dispatched and no tree
\* operation run; when none fails they all run and their context is passed on.
C20_FiltersInOrder ==
    Served =>
        /\ \A i \in DOMAIN fcalls :
              /\ fcalls[i].filter = i
              /\ fcalls[i].got = [j \in 1 .. i - 1 |-> j]
        /\ req.failAt > 0 =>
              /\ Len(fcalls) = req.failAt
              /\ route = "filter" /\ endpoint = "none" /\ branch = "none" /\ ops = <<>>
              /\ Len(out) = 1 /\ out[1].kind = "error" /\ out[1].detail = "Filter"
        /\ req.failAt = 0 =>
              /\ Len(fcalls) = NFilters
              /\ ctx = [j \in 1 .. NFilters |-> j]
              /\ route # "filter"

\* C20's case: the second filter failed after the first had run
C20_Witness ==
    /\ Served /\ req.failAt = 2
    /\ fcalls = <<FilterCall(1, <<>>), FilterCall(2, <<1>>)>>
    /\ route = "filter" /\ ops = <<>>

\* C14: once the handler has returned after the client's disconnect, the
\* subscription is unregistered, the live-subscription counter is back where it
\* was, and nothing more reaches the connection, whatever callbacks are in flight.
C14_NoWriteAfterDisconnect ==
    [][/\ (hpc' = "returned" /\ herr' = "nil") => (~registered' /\ subscribeCount' = 0)
       /\ (hpc = "returned" /\ herr = "nil") => conn' = conn]_vars

C16_PanicRecovered ==
    [][\A p \in Producers :
          /\ (ppc[p] = "panic" /\ ppc'[p] # "panic") => ppc'[p] = "sendPanic"
          /\ (ppc[p] = "sendPanic" /\ ppc'[p] # "sendPanic")
                => /\ ppc'[p] = "idle"
                   /\ errOnSend'.len = errOnSend.len + 1
                   /\ errOnSend.len = 0 => errOnSend'.head = "panic"]_vars

\* C16's case: the handler received the error a recovered panic was turned into
C16_Witness ==
    hpc \in {"unsub", "decr", "returned"} /\ herr = "panic"

\* The sequences of distinct events of the model
EventOrders ==
    {o \in UNION {[1 .. k -> 1 .. MaxEvents] : k \in 0 .. MaxEvents} :
        \A i, j \in DOMAIN o : i # j => o[i] # o[j]}

\* The byte strings that are whole frames of distinct events, one after another
WholeStreams ==
    {Bytes([i \in DOMAIN o |-> Bytes(Render(c, Notification(o[i])))]) :
        o \in EventOrders, c \in {Strict, Simplified}}

\* C17: whenever no write is under way, what has reached the connection is
\* whole frames one after another: no frame's bytes lie between the bytes of
\* another frame, and no bytes come from an event that failed to encode.
C17_WholeFramesOnly ==
    (\A p \in Producers : ppc[p] # "writing") => Bytes(conn) \in WholeStreams

\* The frame the claim describes for notification n
ExpectedFrame(c, n) ==
    IF c.DisableNotificationWrapper
    THEN "data: " \o Payload(c, n.Event) \o "\n\n"
    ELSE "data: " \o "{\"ietf-restconf:notification\":{\"eventTime\":\""
         \o FormatEventTime(n.EventTime) \o "\",\"event\":" \o Payload(c, n.Event)
         \o "}}" \o "\n\n"

\* C18: the frame handed to the connection for a notification that encoded is
\* exactly "data: " + body + "\n\n", the body being the payload inside the
\* ietf-restconf:notification wrapper with the event time in the layout
\* 2006-01-02T15:04:05-07:00, or the bare payload when the wrapper is disabled.
C18_FrameFormat ==
    \A p \in Producers :
        ppc[p] = "write" => Bytes(pbuf[p]) = ExpectedFrame(compliance, pn[p])

\* C18's case: the first event's wrapped frame reached the connection
C18_Witness ==
    /\ Len(conn) > 0
    /\ conn[1] = "data: {\"ietf-restconf:notification\":{\"eventTime\":\"2024-01-09T08:05:00+02:00\",\"event\":{\"acme:event\":1}}}\n\n"

\* The second path segments that the restconf root knows
RestconfSegments == {"data", "operations", "streams", "schema", "ui"}

\* C21: under the restconf root a second path segment other than data,
\* operations, streams, schema or ui is answered with the bad-address error
\* alone: no browser handler, no web-app serving and no fallback handler is
\* reached, even on a server that has a web app and a fallback handler.
C21_UnknownSegmentIsBadAddress ==
    (Served /\ req.failAt = 0 /\ req.op1 = "restconf"
       /\ findDevice(req) = "nil" /\ req.op2 \notin RestconfSegments) =>
        /\ route = "badAddress"
        /\ endpoint = "none" /\ branch = "none" /\ ops = <<>>
        /\ Len(out) = 1 /\ out[1].kind = "error" /\ out[1].detail = "BadAddress"

\* C21's case: an unknown segment on a named device of a server that has both
\* a web app and a fallback handler was answered with the bad-address error
C21_Witness ==
    /\ Served /\ req.op1 = "restconf" /\ req.op2 = "bogus" /\ req.device = "known"
    /\ srv.webApp /\ srv.unhandled
    /\ route = "badAddress" /\ Len(out) = 1 /\ out[1].detail = "BadAddress"

\* The request resolved to a node and passed both endpoint checks
PassedEndpointChecks ==
    /\ Resolved
    /\ ~(endpoint = endpointOperations /\ ~IsRpcPost)
    /\ out # <<RpcUnderData400>>

\* The tree operation the claim assigns to the method and the kind of node
SelectedOperation ==
    CASE req.method = "DELETE" -> "Delete"
      [] req.method = "GET" /\ req.kind # "notification" -> "InsertInto"
      [] req.method = "GET" /\ req.kind = "notification" -> "Notifications"
      [] req.method = "PATCH" -> "UpsertFrom"
      [] req.method = "PUT" -> "ReplaceFrom"
      [] req.method = "POST" /\ req.kind = "action" -> "Action"
      [] req.method = "POST" /\ req.kind # "action" -> "InsertFrom"
      [] OTHER -> "none"

MethodNotAllowed405 == HttpError(405, "Method Not Allowed")

OutputEncoded ==
    IsRpcPost /\ Invoked("Action") /\ req.actRes = "out" /\ req.hasOutput

Counted ==
    {h \in Handlers : spc[h] \in {"notify", "select", "unsub", "decr", "decrWrite"}}

\* C23: with several subscription requests under way at once, the
\* live-subscription counter equals the number of streaming handlers between
\* their increment and their decrement, and it is back at its initial value
\* once every handler has returned, a failed registration included.
C23_CounterCountsHandlers ==
    /\ subscribeCount = Cardinality(Counted)
    /\ (\A h \in Handlers : spc[h] = "returned") => subscribeCount = 0

\* The events of S in the order of their delivery
InOrder(S) ==
    CHOOSE es \in [1 .. Cardinality(S) -> S] :
        \A i, j \in 1 .. Cardinality(S) : i < j => es[i] < es[j]

\* The frames of the events of S, one after another in the order of delivery
FramesOf(S) ==
    [i \in 1 .. Cardinality(S) |-> ExpectedFrame(compliance, Notification(InOrder(S)[i]))]

\* The events delivered so far
Delivered == 1 .. nextEvent - 1

\* The callbacks that have rendered their event and not yet written it
InFlight == {p \in Producers : ppc[p] = "write"}

\* The writes that failed or panicked: their errors are on the way to the
\* channel, in it, or received by the handler
FailedWrites ==
    Cardinality({p \in Producers : ppc[p] \in SendStates \cup {"panic"}})
    + errOnSend.len
    + (IF herr # "nil" THEN 1 ELSE 0)

\* C24: with the callback invoked sequentially, the connection holds the
\* frames of the events delivered, whole, in delivery order and each once:
\* all of them once the callbacks have returned and every write was accepted;
\* a delivered event is missing only while its callback has yet to write it,
\* or when its write failed or panicked, which is reported on the error
\* channel and ends the subscription.
C24_DeliveredInOrder ==
    /\ ((\A p \in Producers : ppc[p] = "idle") /\ FailedWrites = 0)
          => conn = FramesOf(Delivered)
    /\ \E S \in SUBSET Delivered :
          /\ conn = FramesOf(S)
          /\ \A p \in InFlight : pn[p].Event \notin S
    /\ Len(conn) + Cardinality(InFlight) + FailedWrites = Cardinality(Delivered)

\* C24's case: two events delivered one after the other, the second after a
\* callback that ran on another goroutine, both written
C24_Witness ==
    /\ nextEvent = 3 /\ \A p \in Producers : ppc[p] = "idle"
    /\ Len(conn) = 2
    /\ conn[1] = ExpectedFrame(compliance, Notification(1))
    /\ conn[2] = ExpectedFrame(compliance, Notification(2))

====
